---- MODULE Spec2Model ----
(***************************************************************************)
(* AWSResourceManager: the credential resolver (credentials.py) and the    *)
(* storage handler S3Handler (s3/s3.py) over a model of the boto3 S3       *)
(* client.  Every client request may succeed, be rejected by the provider  *)
(* (botocore ClientError) or fail with a non-provider exception.           *)
(***************************************************************************)
EXTENDS Integers, Sequences, FiniteSets, TLC

\* ------------------------------------------------------------------------
\* Python values
\* ------------------------------------------------------------------------

\* Python's None, for the string-valued places of the model.
PyNone == "<None>"

\* The truth value Python gives a value of os.getenv: None and "" are falsy.
Truthy(v) == v # PyNone /\ v # ""

\* all([...]) over a sequence of getenv values.
PyAll(vs) == \A i \in DOMAIN vs : Truthy(vs[i])

\* ------------------------------------------------------------------------
\* Credential resolver: get_credentials()
\* ------------------------------------------------------------------------

EnvNames == {"AWS_ACCESS_KEY_ID", "AWS_SECRET_ACCESS_KEY", "REGION"}

\* What the process environment may hold for a name: unset, empty, a value.
EnvValues(n) == {PyNone, "", "env:" \o n}

\* What the .env file may hold for a name: no line, an empty value, a value.
FileValues(n) == {PyNone, "", "file:" \o n}

VARIABLES
  environ,      \* os.environ: name -> value (PyNone: unset)
  environ0,     \* os.environ when get_credentials was called
  dotenv,       \* the .env file: name -> value (PyNone: no such line)
  cpc,          \* position in get_credentials
  creds,        \* the locals <<aws_access_key_id, aws_secret_access_key, region>>
  loaded,       \* whether load_dotenv() has been called
  outcome,      \* what get_credentials did: "", "returned", "ValueError"
  remote,       \* the S3 account: [buckets, objects, acl, versioning, cors]
  handler,      \* handler instance -> its attributes
  call,         \* handler instance -> its current (or last) call
  creates,      \* handler instance -> the run of consecutive create_bucket calls
  remote0,      \* handler instance -> the S3 account when its call started
  trip,         \* handler instance -> its upload/list/read/delete/list round trip
  disk          \* the local files written by download_file: name -> bytes

credVars == <<environ, environ0, dotenv, cpc, creds, loaded, outcome>>
s3Vars == <<remote, handler, call, creates, remote0, trip, disk>>
vars == <<environ, environ0, dotenv, cpc, creds, loaded, outcome,
          remote, handler, call, creates, remote0, trip, disk>>

\* os.getenv(name)
GetEnv(e, n) == e[n]

\* The three reads of lines 20-22 and 26-28.
ReadCreds(e) ==
  << GetEnv(e, "AWS_ACCESS_KEY_ID"), GetEnv(e, "AWS_SECRET_ACCESS_KEY"),
     GetEnv(e, "REGION") >>

\* load_dotenv(override=True): the file's values win.
LoadDotenvOverride(e, f) ==
  [n \in EnvNames |-> IF f[n] # PyNone THEN f[n] ELSE e[n]]

\* load_dotenv() with its default override=False: a name the environment
\* already holds (even with an empty value) keeps its value; a name it lacks
\* takes the file's value, when the file has one.
LoadDotenv(e, f) ==
  [n \in EnvNames |-> IF e[n] # PyNone THEN e[n] ELSE f[n]]

\* NeedsFallback without the region: the fallback only for the two keys.
NeedsFallbackKeysOnly(c) == ~ Truthy(c[1]) \/ ~ Truthy(c[2])

\* The condition of line 24.
NeedsFallback(c) == ~ PyAll(c)

\* Incomplete with any() for all(): complete as soon as one value is there.
IncompleteNotAny(c) == \A i \in DOMAIN c : ~ Truthy(c[i])

\* The condition of line 30.
Incomplete(c) == ~ PyAll(c)

\* lines 20-22
CredRead ==
  /\ cpc = "start"
  /\ creds' = ReadCreds(environ)
  /\ cpc' = "check1"
  /\ UNCHANGED <<environ, environ0, dotenv, loaded, outcome>>
  /\ UNCHANGED s3Vars

\* lines 24-28, the branch taken
CredFallback ==
  /\ cpc = "check1"
  /\ NeedsFallback(creds)
  /\ environ' = LoadDotenv(environ, dotenv)
  /\ loaded' = TRUE
  /\ creds' = ReadCreds(environ')
  /\ cpc' = "check2"
  /\ UNCHANGED <<environ0, dotenv, outcome>>
  /\ UNCHANGED s3Vars

\* line 24, the branch skipped
CredNoFallback ==
  /\ cpc = "check1"
  /\ ~ NeedsFallback(creds)
  /\ cpc' = "check2"
  /\ UNCHANGED <<environ, environ0, dotenv, creds, loaded, outcome>>
  /\ UNCHANGED s3Vars

\* lines 30-31
CredRaise ==
  /\ cpc = "check2"
  /\ Incomplete(creds)
  /\ outcome' = "ValueError"
  /\ cpc' = "done"
  /\ UNCHANGED <<environ, environ0, dotenv, creds, loaded>>
  /\ UNCHANGED s3Vars

\* line 33
CredReturn ==
  /\ cpc = "check2"
  /\ ~ Incomplete(creds)
  /\ outcome' = "returned"
  /\ cpc' = "done"
  /\ UNCHANGED <<environ, environ0, dotenv, creds, loaded>>
  /\ UNCHANGED s3Vars

\* ------------------------------------------------------------------------
\* The S3 account behind the boto3 client
\* ------------------------------------------------------------------------

Buckets == {"b1", "b2"}

\* S3 lists buckets and keys in lexicographic order.
BucketOrder == <<"b1", "b2">>

Keys == {"a", "fa"}

KeyOrder == <<"a", "fa">>

\* folder arguments; "" is the default of upload_file and delete_object
Folders == {"", "f"}

\* the (folder, name) arguments whose effective key is one of Keys
FolderedNames == {fn \in Folders \X Keys : (fn[1] \o fn[2]) \in Keys}

\* Object bodies, as bytes: "h" "e-acute" (valid UTF-8) and "h" 0xFF (not UTF-8).
Payloads == { <<104, 195, 169>>, <<104, 255>> }

\* The (source bucket, source key, destination bucket, destination key)
\* arguments of copy_object and move_object: from either key of b1 to any
\* bucket and key, the source itself included.
Transfers == {t \in Buckets \X Keys \X Buckets \X Keys : t[1] = "b1"}

\* prefix arguments of list_objects_by_prefix
Prefixes == {"", "f"}

\* acl arguments of set_object_acl; a new object is private
Acls == {"private", "public-read"}

\* cors_rules arguments of set_bucket_cors_policy, a rule given by its name
CorsRuleSets == { <<"r1">>, <<"r2", "r1">> }

\* file_name arguments of download_file
Files == {"d"}

\* region arguments of S3Handler(secret, access, region)
Regions == {PyNone, "eu-west-1"}

\* What happens to a request besides what the account's state decides:
\* nothing, the provider rejects it (access denied, throttling, 5xx: a
\* ClientError), or a non-provider exception (no connection, invalid
\* parameters).
Faults == {"none", "client", "unexpected"}

\* the consecutive create_bucket calls of one name that are followed
MaxSeqCalls == 2

\* expiration arguments given explicitly are 1..MaxExpiration
MaxExpiration == 1

\* generate_presigned_url's default expiration
DefaultExpiration == 600

NoObjects == [k \in {} |-> <<>>]

\* A bucket that does not exist holds no object and has no configuration;
\* a new bucket has no versioning status ("") and no CORS rules (<<>>).
EmptyAccount ==
  [buckets |-> {},
   objects |-> [b \in Buckets |-> NoObjects],
   acl |-> [b \in Buckets |-> NoObjects],
   versioning |-> [b \in Buckets |-> ""],
   cors |-> [b \in Buckets |-> <<>>]]

NoFiles == [f \in {} |-> <<>>]

HasObject(rem, b, k) == b \in rem.buckets /\ k \in DOMAIN rem.objects[b]

PutAt(objs, k, body) ==
  [x \in (DOMAIN objs) \cup {k} |-> IF x = k THEN body ELSE objs[x]]

\* RemoveAt with the key kept: the delete request has no effect.
RemoveAtNothing(objs, k) == objs

RemoveAt(objs, k) == [x \in (DOMAIN objs) \ {k} |-> objs[x]]

\* How a request ends: "ok", "ClientError" (with code "404": "ClientError404",
\* with code "NoSuchKey": "ClientErrorNoSuchKey")
\* or "Exception".  stateErr is the error the account's state calls for.
Outcome(fault, stateErr) ==
  IF fault = "unexpected" THEN "Exception"
  ELSE IF fault = "client" THEN "ClientError"
  ELSE IF stateErr # "" THEN stateErr
  ELSE "ok"

\* IsClientError for the errors of code "404" only.
IsClientErrorNotFoundOnly(out) == out = "ClientError404"

IsClientError(out) ==
  out \in {"ClientError", "ClientError404", "ClientErrorNoSuchKey"}

\* client.list_buckets(): response["Buckets"], names in order
ClientListBuckets(rem, fault) ==
  [out |-> Outcome(fault, ""),
   val |-> SelectSeq(BucketOrder, LAMBDA b : b \in rem.buckets),
   remote |-> rem]

\* client.create_bucket(Bucket=, CreateBucketConfiguration=)
ClientCreateBucket(rem, b, fault) ==
  LET out == Outcome(fault, IF b \in rem.buckets THEN "ClientError" ELSE "")
  IN [out |-> out,
      remote |-> IF out = "ok"
                 THEN [rem EXCEPT !.buckets = @ \cup {b},
                                  !.objects[b] = NoObjects,
                                  !.acl[b] = NoObjects,
                                  !.versioning[b] = "",
                                  !.cors[b] = <<>>]
                 ELSE rem]

\* client.delete_bucket(Bucket=): rejected for a missing or non-empty bucket
ClientDeleteBucket(rem, b, fault) ==
  LET out == Outcome(fault,
                IF b \notin rem.buckets \/ DOMAIN rem.objects[b] # {}
                THEN "ClientError" ELSE "")
  IN [out |-> out,
      remote |-> IF out = "ok"
                 THEN [rem EXCEPT !.buckets = @ \ {b},
                                  !.versioning[b] = "",
                                  !.cors[b] = <<>>]
                 ELSE rem]

\* client.head_object(Bucket=, Key=): a missing object is a ClientError whose
\* code is "404"; the response is the object's metadata.
ClientHeadObject(rem, b, k, fault) ==
  LET out == Outcome(fault, IF HasObject(rem, b, k) THEN "" ELSE "ClientError404")
  IN [out |-> out,
      val |-> IF out = "ok" THEN [ContentLength |-> Len(rem.objects[b][k])]
              ELSE [ContentLength |-> 0],
      remote |-> rem]

\* client.list_objects_v2(Bucket=): the keys of response["Contents"], in
\* order; the response has no "Contents" when the bucket holds no object.
ClientListObjectsV2(rem, b, fault) ==
  LET out == Outcome(fault, IF b \in rem.buckets THEN "" ELSE "ClientError")
  IN [out |-> out,
      val |-> IF out = "ok"
              THEN SelectSeq(KeyOrder, LAMBDA k : k \in DOMAIN rem.objects[b])
              ELSE <<>>,
      remote |-> rem]

\* client.delete_object(Bucket=, Key=): deleting a missing key succeeds
ClientDeleteObject(rem, b, k, fault) ==
  LET out == Outcome(fault, IF b \in rem.buckets THEN "" ELSE "ClientError")
  IN [out |-> out,
      remote |-> IF out = "ok"
                 THEN [rem EXCEPT !.objects[b] = RemoveAt(@, k),
                                  !.acl[b] = RemoveAt(@, k)]
                 ELSE rem]

\* client.put_object(Bucket=, Key=, Body=)
ClientPutObject(rem, b, k, body, fault) ==
  LET out == Outcome(fault, IF b \in rem.buckets THEN "" ELSE "ClientError")
  IN [out |-> out,
      remote |-> IF out = "ok"
                 THEN [rem EXCEPT !.objects[b] = PutAt(@, k, body),
                                  !.acl[b] = PutAt(@, k, "private")]
                 ELSE rem]

\* client.get_object(Bucket=, Key=): response["Body"].read(); a missing
\* object is a ClientError of code "NoSuchKey"
ClientGetObject(rem, b, k, fault) ==
  LET out == Outcome(fault, IF HasObject(rem, b, k) THEN ""
                            ELSE "ClientErrorNoSuchKey")
  IN [out |-> out,
      val |-> IF out = "ok" THEN rem.objects[b][k] ELSE <<>>,
      remote |-> rem]

\* ClientCopyObject that removes the source once it is copied elsewhere.
ClientCopyObjectMoving(rem, req, fault) ==
  LET src == req.CopySource
      out == Outcome(fault,
               IF HasObject(rem, src.Bucket, src.Key) /\ req.Bucket \in rem.buckets
               THEN "" ELSE "ClientError")
      put == [rem EXCEPT !.objects[req.Bucket] =
                PutAt(@, req.Key, rem.objects[src.Bucket][src.Key]),
                         !.acl[req.Bucket] = PutAt(@, req.Key, "private")]
  IN [out |-> out,
      remote |-> IF out # "ok" THEN rem
                 ELSE IF src.Bucket = req.Bucket /\ src.Key = req.Key THEN put
                 ELSE [put EXCEPT !.objects[src.Bucket] = RemoveAt(@, src.Key),
                                  !.acl[src.Bucket] = RemoveAt(@, src.Key)]]

\* client.copy_object(Bucket=, CopySource={Bucket, Key}, Key=).  The copy
\* of an object onto itself is answered as the provider answers it: with
\* success (fault "none") or with a ClientError (fault "client").
ClientCopyObject(rem, req, fault) ==
  LET src == req.CopySource
      out == Outcome(fault,
               IF HasObject(rem, src.Bucket, src.Key) /\ req.Bucket \in rem.buckets
               THEN "" ELSE "ClientError")
  IN [out |-> out,
      remote |-> IF out = "ok"
                 THEN [rem EXCEPT !.objects[req.Bucket] =
                         PutAt(@, req.Key, rem.objects[src.Bucket][src.Key]),
                                  !.acl[req.Bucket] = PutAt(@, req.Key, "private")]
                 ELSE rem]

\* client.generate_presigned_url('get_object', Params=, ExpiresIn=): signed
\* locally, no request to the provider
ClientGeneratePresignedUrl(b, k, expires, fault) ==
  [out |-> Outcome(fault, ""),
   val |-> [Bucket |-> b, Key |-> k, ExpiresIn |-> expires]]

\* client.download_file(bucket, key, filename): a managed transfer, which
\* asks for the object's head first (a missing object is a ClientError of
\* code "404") and leaves the local file as it was unless it succeeds.
ClientDownloadFile(rem, dsk, b, k, f, fault) ==
  LET out == Outcome(fault, IF HasObject(rem, b, k) THEN "" ELSE "ClientError404")
  IN [out |-> out,
      disk |-> IF out = "ok" THEN PutAt(dsk, f, rem.objects[b][k]) ELSE dsk]

\* str.startswith, for the keys and prefixes of the model
HasPrefix(k, prefix) == \E rest \in Keys \cup {""} : prefix \o rest = k

\* client.list_objects_v2(Bucket=, Prefix=)
ClientListObjectsV2Prefix(rem, b, prefix, fault) ==
  LET out == Outcome(fault, IF b \in rem.buckets THEN "" ELSE "ClientError")
  IN [out |-> out,
      val |-> IF out = "ok"
              THEN SelectSeq(KeyOrder, LAMBDA k : k \in DOMAIN rem.objects[b]
                                                   /\ HasPrefix(k, prefix))
              ELSE <<>>,
      remote |-> rem]

\* client.put_object_acl(Bucket=, Key=, ACL=)
ClientPutObjectAcl(rem, b, k, acl, fault) ==
  LET out == Outcome(fault, IF HasObject(rem, b, k) THEN "" ELSE "ClientError")
  IN [out |-> out,
      remote |-> IF out = "ok" THEN [rem EXCEPT !.acl[b][k] = acl] ELSE rem]

\* client.put_bucket_versioning(Bucket=, VersioningConfiguration={'Status':})
ClientPutBucketVersioning(rem, b, status, fault) ==
  LET out == Outcome(fault, IF b \in rem.buckets THEN "" ELSE "ClientError")
  IN [out |-> out,
      remote |-> IF out = "ok" THEN [rem EXCEPT !.versioning[b] = status] ELSE rem]

\* client.restore_object(Bucket=, Key=, RestoreRequest=): every object of
\* the account was put by put_object or copy_object without a storage
\* class, so none is archived, and the provider rejects the request
\* (InvalidObjectState, or NoSuchKey for a missing object).
ClientRestoreObject(rem, b, k, fault) ==
  [out |-> Outcome(fault, "ClientError"), remote |-> rem]

\* client.put_bucket_cors(Bucket=, CORSConfiguration={'CORSRules':})
ClientPutBucketCors(rem, b, rules, fault) ==
  LET out == Outcome(fault, IF b \in rem.buckets THEN "" ELSE "ClientError")
  IN [out |-> out,
      remote |-> IF out = "ok" THEN [rem EXCEPT !.cors[b] = rules] ELSE rem]

\* client.get_bucket_encryption(Bucket=): a bucket is encrypted with SSE-S3
\* unless configured otherwise, which no operation of the handler does.
ClientGetBucketEncryption(rem, b, fault) ==
  LET out == Outcome(fault, IF b \in rem.buckets THEN "" ELSE "ClientError")
  IN [out |-> out,
      val |-> [SSEAlgorithm |-> "AES256"],
      remote |-> rem]

\* ------------------------------------------------------------------------
\* S3Handler
\* ------------------------------------------------------------------------

\* S3Handler.__init__: self.location is set only when a region is given.
InitHandler(region) ==
  IF region = PyNone
  THEN [client |-> [service |-> "s3", region_name |-> PyNone]]
  ELSE [location |-> [LocationConstraint |-> region],
        client |-> [service |-> "s3", region_name |-> region]]

\* HasLocation with the attribute taken to be there for every handler.
HasLocationAlways(h) == TRUE

\* hasattr(self, "location")
HasLocation(h) == "location" \in DOMAIN handler[h]

\* What a call did, in order: its log records and its client requests.
LogEv(level) == [t |-> "log", name |-> level, out |-> ""]

ReqEv(api, out) == [t |-> "req", name |-> api, out |-> out]

Reqs(c) == SelectSeq(c.trace, LAMBDA e : e.t = "req")

Logs(c) == SelectSeq(c.trace, LAMBDA e : e.t = "log")

ReqsOf(c, api) == SelectSeq(c.trace, LAMBDA e : e.t = "req" /\ e.name = api)

\* Return values, by Python type.
RetNone == [kind |-> "None", val |-> PyNone]

RetBool(v) == [kind |-> "bool", val |-> v]

RetList(v) == [kind |-> "list", val |-> v]

RetStr(v) == [kind |-> "str", val |-> v]

RetStringIO(v) == [kind |-> "StringIO", val |-> v]

RetDict(v) == [kind |-> "dict", val |-> v]

\* the URL string of generate_presigned_url, by what it encodes
RetUrl(v) == [kind |-> "url", val |-> v]

NoArgs == [k \in {} |-> PyNone]

IdleCall ==
  [op |-> "", args |-> NoArgs, pc |-> "idle", trace |-> <<>>,
   ret |-> RetNone, raised |-> ""]

\* A call that has returned r, or let the exception ex escape (ex # "").
Ended(o, a, tr, r, ex) ==
  [op |-> o, args |-> a, pc |-> "done", trace |-> tr, ret |-> r, raised |-> ex]

\* A call waiting to make its next request.
Pending(o, a, at, tr) ==
  [op |-> o, args |-> a, pc |-> at, trace |-> tr, ret |-> RetNone, raised |-> ""]

\* CanStart under a lock shared by the handlers: no call starts while a
\* call of another handler is between two requests.
CanStartLocked(h) ==
  /\ call[h].pc \in {"idle", "done"}
  /\ \A g \in DOMAIN call : call[g].pc \in {"idle", "done"}

CanStart(h) == call[h].pc \in {"idle", "done"}

\* The run of consecutive create_bucket(name) calls of a handler, one entry
\* for each call: "ok" or "failed" for the call's creation request, or why it
\* made none ("list_failed", "listed", "no_location").  Any request of
\* another kind, or of another handler, ends the run.
NoRun == [name |-> PyNone, outs |-> <<>>]

RunFor(h, b) ==
  IF creates[h].name = b THEN creates[h] ELSE [name |-> b, outs |-> <<>>]

EndRuns == [x \in DOMAIN creates |-> NoRun]

\* Every request of the call was answered without an error.
AllOk(c) == \A i \in DOMAIN Reqs(c) : Reqs(c)[i].out = "ok"

\* The round trip of a handler: upload_file into an empty bucket, then
\* list_objects, read_file, delete_object and list_objects of that bucket
\* and key, each with its requests answered without an error.  stage counts
\* the calls of the round trip made so far; any other call ends it.
NoTrip == [stage |-> 0, bucket |-> PyNone, key |-> PyNone, body |-> <<>>]

\* The round trip after a step that left the handler's call as c, from the
\* round trip t and the account rem before the step.
TripAfter(t, c, rem) ==
  LET a == c.args
  IN IF /\ c.op = "upload_file" /\ c.pc = "done" /\ AllOk(c)
        /\ a.bucket_name \in rem.buckets
        /\ DOMAIN rem.objects[a.bucket_name] = {}
     THEN [stage |-> 1, bucket |-> a.bucket_name,
           key |-> a.folder \o a.filename, body |-> a.file]
     ELSE IF /\ t.stage \in {1, 4} /\ c.op = "list_objects" /\ c.pc = "done"
             /\ AllOk(c) /\ a.bucket_name = t.bucket
     THEN [t EXCEPT !.stage = @ + 1]
     ELSE IF /\ t.stage = 2 /\ c.op = "read_file" /\ AllOk(c)
             /\ a.bucket_name = t.bucket /\ a.object_name = t.key
     THEN IF c.pc = "done" THEN [t EXCEPT !.stage = 3] ELSE t
     ELSE IF /\ t.stage = 3 /\ c.op = "delete_object" /\ c.pc = "done"
             /\ AllOk(c) /\ a.bucket_name = t.bucket
             /\ a.folder \o a.object_name = t.key
     THEN [t EXCEPT !.stage = 4]
     ELSE NoTrip

\* What is kept of a step of handler h for the properties: the account as
\* it was when the call started, and the round trip.
Tracked(h) ==
  trip' = [x \in DOMAIN trip |->
             IF x = h THEN TripAfter(trip[h], call'[h], remote) ELSE NoTrip]

\* a step that starts a call
Started(h) ==
  /\ remote0' = [remote0 EXCEPT ![h] = remote]
  /\ Tracked(h)

\* a later step of a call
Continued(h) ==
  /\ UNCHANGED remote0
  /\ Tracked(h)

\* ListBucketsResult with the empty list for a request that raised.
ListBucketsResultEmptyOnError(resp) ==
  IF resp.out = "ok"
  THEN [trace |-> <<ReqEv("list_buckets", resp.out), LogEv("info")>>,
        ret |-> RetList(resp.val)]
  ELSE [trace |-> <<ReqEv("list_buckets", resp.out), LogEv("error")>>,
        ret |-> RetList(<<>>)]

\* S3Handler.list_buckets, as a function of the client's answer
ListBucketsResult(resp) ==
  IF resp.out = "ok"
  THEN [trace |-> <<ReqEv("list_buckets", resp.out), LogEv("info")>>,
        ret |-> RetList(resp.val)]
  ELSE [trace |-> <<ReqEv("list_buckets", resp.out), LogEv("error")>>,
        ret |-> RetNone]

ListBuckets(h, fault) ==
  /\ CanStart(h)
  /\ LET r == ListBucketsResult(ClientListBuckets(remote, fault))
     IN call' = [call EXCEPT ![h] = Ended("list_buckets", NoArgs, r.trace, r.ret, "")]
  /\ creates' = EndRuns
  /\ UNCHANGED <<remote, handler>>
  /\ UNCHANGED credVars
  /\ Started(h)
  /\ UNCHANGED disk

\* The entries of a run that stand for a creation request.
Requested == {"ok", "failed"}

\* BucketListed with the test lost: every name is taken for new.
BucketListedNever(name, listing) == FALSE

\* line 101: bucket_name in self.list_buckets()
BucketListed(name, listing) == \E i \in DOMAIN listing : listing[i] = name

\* CreateBucketGate with the listing that failed taken for an empty one.
CreateBucketGateFailedAsEmpty(h, b, ret) ==
  IF ret.kind # "None" /\ BucketListed(b, ret.val) THEN "listed"
  ELSE IF ~ HasLocation(h) THEN "no_location"
  ELSE "create"

\* lines 101-104 of create_bucket: what the call does with the value of
\* list_buckets().  `bucket_name in None` is a TypeError and the read of
\* self.location an AttributeError on a handler that has none; both are
\* caught at line 112, before any creation request.
CreateBucketGate(h, b, ret) ==
  IF ret.kind = "None" THEN "list_failed"
  ELSE IF BucketListed(b, ret.val) THEN "listed"
  ELSE IF ~ HasLocation(h) THEN "no_location"
  ELSE "create"

\* create_bucket up to its creation request: list_buckets(), the test of
\* line 101 (a TypeError when list_buckets returned None) and the read of
\* self.location (an AttributeError when the handler has none); both
\* exceptions are caught at line 112.
CreateBucketCheck(h, b, fault) ==
  /\ CanStart(h)
  /\ b \in Buckets
  /\ Len(RunFor(h, b).outs) < MaxSeqCalls
  /\ LET lb == ListBucketsResult(ClientListBuckets(remote, fault))
         a == [bucket_name |-> b]
         end(tr, how) ==
           /\ call' = [call EXCEPT ![h] = Ended("create_bucket", a, tr, RetNone, "")]
           /\ creates' = [EndRuns EXCEPT ![h] =
                            [RunFor(h, b) EXCEPT !.outs = Append(@, how)]]
         gate == CreateBucketGate(h, b, lb.ret)
     IN IF gate = "list_failed"
        THEN end(lb.trace \o <<LogEv("error")>>, "list_failed")
        ELSE IF gate = "listed"
        THEN end(lb.trace \o <<LogEv("info")>>, "listed")
        ELSE IF gate = "no_location"
        THEN end(lb.trace \o <<LogEv("info"), LogEv("error")>>, "no_location")
        ELSE /\ call' = [call EXCEPT ![h] =
                           Pending("create_bucket", a, "create",
                                   lb.trace \o <<LogEv("info")>>)]
             /\ creates' = [EndRuns EXCEPT ![h] = RunFor(h, b)]
  /\ UNCHANGED <<remote, handler>>
  /\ UNCHANGED credVars
  /\ Started(h)
  /\ UNCHANGED disk

\* lines 105-113: the creation request and its handlers
CreateBucketCreate(h, fault) ==
  /\ call[h].pc = "create"
  /\ LET c == call[h]
         b == c.args.bucket_name
         resp == ClientCreateBucket(remote, b, fault)
         tr == c.trace \o << ReqEv("create_bucket", resp.out),
                             LogEv(IF resp.out = "ok" THEN "info" ELSE "error") >>
     IN /\ remote' = resp.remote
        /\ call' = [call EXCEPT ![h] = Ended("create_bucket", c.args, tr, RetNone, "")]
        /\ creates' = [EndRuns EXCEPT ![h] =
                         IF creates[h].name = b
                         THEN [creates[h] EXCEPT !.outs =
                                 Append(@, IF resp.out = "ok" THEN "ok" ELSE "failed")]
                         ELSE creates[h]]
  /\ UNCHANGED handler
  /\ UNCHANGED credVars
  /\ Continued(h)
  /\ UNCHANGED disk

\* delete_bucket: only ClientError is caught
DeleteBucket(h, b, fault) ==
  /\ CanStart(h)
  /\ LET resp == ClientDeleteBucket(remote, b, fault)
         tr == <<LogEv("info"), ReqEv("delete_bucket", resp.out)>>
         a == [bucket_name |-> b]
     IN /\ remote' = resp.remote
        /\ call' = [call EXCEPT ![h] =
             IF resp.out = "ok"
             THEN Ended("delete_bucket", a, tr \o <<LogEv("info")>>, RetNone, "")
             ELSE IF IsClientError(resp.out)
             THEN Ended("delete_bucket", a, tr \o <<LogEv("error")>>, RetNone, "")
             ELSE Ended("delete_bucket", a, tr, RetNone, "Exception")]
  /\ creates' = EndRuns
  /\ UNCHANGED handler
  /\ UNCHANGED credVars
  /\ Started(h)
  /\ UNCHANGED disk

\* HeadErrorLevel with the level of an error for every code.
HeadErrorLevelError(out) == "error"

\* lines 150-153: the log level for a ClientError of head_object
HeadErrorLevel(out) == IF out = "ClientError404" THEN "warning" ELSE "error"

\* HeadErrorResult with None for the codes other than 404.
HeadErrorResultNone(out) ==
  IF out = "ClientError404" THEN RetBool(FALSE) ELSE RetNone

\* line 154: what check_object_exists returns for a ClientError
HeadErrorResult(out) == RetBool(FALSE)

\* check_object_exists: only ClientError is caught
CheckObjectExists(h, b, k, fault) ==
  /\ CanStart(h)
  /\ LET resp == ClientHeadObject(remote, b, k, fault)
         tr == <<LogEv("info"), ReqEv("head_object", resp.out)>>
         a == [bucket_name |-> b, object_name |-> k]
         o == "check_object_exists"
     IN call' = [call EXCEPT ![h] =
          IF resp.out = "ok"
          THEN Ended(o, a, tr \o <<LogEv("info")>>, RetBool(TRUE), "")
          ELSE IF IsClientError(resp.out)
          THEN Ended(o, a, tr \o <<LogEv(HeadErrorLevel(resp.out))>>,
                     HeadErrorResult(resp.out), "")
          ELSE Ended(o, a, tr, RetNone, "Exception")]
  /\ creates' = EndRuns
  /\ UNCHANGED <<remote, handler>>
  /\ UNCHANGED credVars
  /\ Started(h)
  /\ UNCHANGED disk

\* ListObjectsResult with the empty list for a request that failed.
ListObjectsResultEmptyOnError(resp) ==
  IF resp.out = "ok"
  THEN [log |-> "info", ret |-> RetList(resp.val)]
  ELSE [log |-> "error", ret |-> RetList(<<>>)]

\* lines 166-181: what list_objects logs and returns for the client's
\* answer: the keys of 'Contents', [] when the response has none, None for
\* a ClientError or any other exception; logger.exception logs at level
\* ERROR
ListObjectsResult(resp) ==
  IF resp.out = "ok"
  THEN IF resp.val # <<>>
       THEN [log |-> "info", ret |-> RetList(resp.val)]
       ELSE [log |-> "info", ret |-> RetList(<<>>)]
  ELSE [log |-> "error", ret |-> RetNone]

\* ListObjects with a mirror: a handler whose previous call listed the
\* bucket makes the request and returns the previous listing.
ListObjectsMirrored(h, b, fault) ==
  /\ CanStart(h)
  /\ LET resp == ClientListObjectsV2(remote, b, fault)
         r == ListObjectsResult(resp)
         tr == <<ReqEv("list_objects_v2", resp.out), LogEv(r.log)>>
         a == [bucket_name |-> b]
         mirrored == /\ call[h].op = "list_objects"
                     /\ call[h].args.bucket_name = b
                     /\ call[h].ret.kind = "list"
                     /\ resp.out = "ok"
     IN call' = [call EXCEPT ![h] =
          Ended("list_objects", a, tr, IF mirrored THEN call[h].ret ELSE r.ret, "")]
  /\ creates' = EndRuns
  /\ UNCHANGED <<remote, handler>>
  /\ UNCHANGED credVars
  /\ Started(h)
  /\ UNCHANGED disk

\* list_objects
ListObjects(h, b, fault) ==
  /\ CanStart(h)
  /\ LET resp == ClientListObjectsV2(remote, b, fault)
         r == ListObjectsResult(resp)
         tr == <<ReqEv("list_objects_v2", resp.out), LogEv(r.log)>>
         a == [bucket_name |-> b]
     IN call' = [call EXCEPT ![h] = Ended("list_objects", a, tr, r.ret, "")]
  /\ creates' = EndRuns
  /\ UNCHANGED <<remote, handler>>
  /\ UNCHANGED credVars
  /\ Started(h)
  /\ UNCHANGED disk

\* EffectiveKey with the folder left out.
EffectiveKeyNameOnly(folder, name) == name

\* The effective key f"{folder}{object_name}" of lines 191 and 238.
EffectiveKey(folder, name) == folder \o name

\* DeleteObjectResult with a head_object request before the delete request.
DeleteObjectResultChecked(resp) ==
  LET tr == << LogEv("info"), ReqEv("head_object", "ok"),
               ReqEv("delete_object", resp.out) >>
  IN IF resp.out = "ok"
     THEN [trace |-> tr \o <<LogEv("info")>>, raised |-> ""]
     ELSE IF IsClientError(resp.out)
     THEN [trace |-> tr, raised |-> "AttributeError"]
     ELSE [trace |-> tr, raised |-> "Exception"]

\* delete_object as a function of the client's answer.  The handler of
\* ClientError (line 194) reads self.logger, which S3Handler never sets: the
\* AttributeError leaves the method.
DeleteObjectResult(resp) ==
  LET tr == <<LogEv("info"), ReqEv("delete_object", resp.out)>>
  IN IF resp.out = "ok"
     THEN [trace |-> tr \o <<LogEv("info")>>, raised |-> ""]
     ELSE IF IsClientError(resp.out)
     THEN [trace |-> tr, raised |-> "AttributeError"]
     ELSE [trace |-> tr, raised |-> "Exception"]

DeleteObject(h, b, fn, fault) ==
  /\ CanStart(h)
  /\ LET resp == ClientDeleteObject(remote, b, EffectiveKey(fn[1], fn[2]), fault)
         r == DeleteObjectResult(resp)
         a == [bucket_name |-> b, object_name |-> fn[2], folder |-> fn[1]]
     IN /\ remote' = resp.remote
        /\ call' = [call EXCEPT ![h] =
                      Ended("delete_object", a, r.trace, RetNone, r.raised)]
  /\ creates' = EndRuns
  /\ UNCHANGED handler
  /\ UNCHANGED credVars
  /\ Started(h)
  /\ UNCHANGED disk

\* expiration arguments: omitted, or given explicitly
Expirations ==
  {[given |-> FALSE, value |-> 0]} \cup
  {[given |-> TRUE, value |-> e] : e \in 1 .. MaxExpiration}

\* ExpiresIn with the default for every call.
ExpiresInDefault(expiration) == DefaultExpiration

\* line 197: expiration:int=600
ExpiresIn(expiration) ==
  IF expiration.given THEN expiration.value ELSE DefaultExpiration

\* generate_presigned_url: only ClientError is caught
GeneratePresignedUrl(h, b, k, expiration, fault) ==
  /\ CanStart(h)
  /\ LET resp == ClientGeneratePresignedUrl(b, k, ExpiresIn(expiration), fault)
         tr == <<LogEv("info"), ReqEv("generate_presigned_url", resp.out)>>
         a == [bucket_name |-> b, object_name |-> k, expiration |-> expiration]
         o == "generate_presigned_url"
     IN call' = [call EXCEPT ![h] =
          IF resp.out = "ok"
          THEN Ended(o, a, tr \o <<LogEv("info")>>, RetUrl(resp.val), "")
          ELSE IF IsClientError(resp.out)
          THEN Ended(o, a, tr \o <<LogEv("error")>>, RetNone, "")
          ELSE Ended(o, a, tr, RetNone, "Exception")]
  /\ creates' = EndRuns
  /\ UNCHANGED <<remote, handler>>
  /\ UNCHANGED credVars
  /\ Started(h)
  /\ UNCHANGED disk

\* upload_file: ClientError and Exception are both caught
UploadFile(h, b, fn, body, fault) ==
  /\ CanStart(h)
  /\ LET resp == ClientPutObject(remote, b, EffectiveKey(fn[1], fn[2]), body, fault)
         tr == << ReqEv("put_object", resp.out),
                  LogEv(IF resp.out = "ok" THEN "info" ELSE "error") >>
         a == [bucket_name |-> b, filename |-> fn[2], folder |-> fn[1], file |-> body]
     IN /\ remote' = resp.remote
        /\ call' = [call EXCEPT ![h] = Ended("upload_file", a, tr, RetNone, "")]
  /\ creates' = EndRuns
  /\ UNCHANGED handler
  /\ UNCHANGED credVars
  /\ Started(h)
  /\ UNCHANGED disk

\* bytes.decode('utf-8') (strict), for bytes below 0xE0: a byte below 0x80 is
\* one character, a lead byte 0xC2..0xDF takes one continuation byte
\* 0x80..0xBF, anything else is a UnicodeDecodeError.  The characters are
\* given as code points.
RECURSIVE Utf8Decode(_)
Utf8Decode(bs) ==
  IF bs = <<>> THEN [ok |-> TRUE, text |-> <<>>]
  ELSE IF bs[1] < 128
  THEN LET rest == Utf8Decode(Tail(bs))
       IN [ok |-> rest.ok, text |-> <<bs[1]>> \o rest.text]
  ELSE IF bs[1] \in 194 .. 223 /\ Len(bs) >= 2 /\ bs[2] \in 128 .. 191
  THEN LET rest == Utf8Decode(Tail(Tail(bs)))
       IN [ok |-> rest.ok,
           text |-> <<(bs[1] - 192) * 64 + (bs[2] - 128)>> \o rest.text]
  ELSE [ok |-> FALSE, text |-> <<>>]

\* bytes.decode('latin-1'): every byte is one character, no error.
Latin1Decode(bs) == [ok |-> TRUE, text |-> bs]

\* line 290: response['Body'].read().decode('utf-8')
DecodeBody(bs) == Utf8Decode(bs)

\* NotInListing with every key taken to be missing from the listing.
NotInListingAlways(k, listing) == TRUE

\* lines 281-282: 'Contents' not in response or the key is not among its keys
NotInListing(k, listing) == ~ \E i \in DOMAIN listing : listing[i] = k

\* line 286
FileNotInBucket == "File not in bucket"

\* read_file up to its get_object request: the listing and the test of
\* lines 281-282
ReadFileList(h, b, k, fault) ==
  /\ CanStart(h)
  /\ LET resp == ClientListObjectsV2(remote, b, fault)
         tr == <<ReqEv("list_objects_v2", resp.out)>>
         a == [bucket_name |-> b, object_name |-> k]
     IN call' = [call EXCEPT ![h] =
          IF resp.out # "ok"
          THEN Ended("read_file", a, tr \o <<LogEv("error")>>, RetNone, "")
          ELSE IF NotInListing(k, resp.val)
          THEN Ended("read_file", a, tr \o <<LogEv("info")>>, RetStr(FileNotInBucket), "")
          ELSE Pending("read_file", a, "get", tr)]
  /\ creates' = EndRuns
  /\ UNCHANGED <<remote, handler>>
  /\ UNCHANGED credVars
  /\ Started(h)
  /\ UNCHANGED disk

\* lines 288-302: get_object, the decoding, and the handlers
ReadFileGet(h, fault) ==
  /\ call[h].pc = "get"
  /\ LET c == call[h]
         resp == ClientGetObject(remote, c.args.bucket_name, c.args.object_name, fault)
         tr == c.trace \o <<ReqEv("get_object", resp.out)>>
         dec == DecodeBody(resp.val)
     IN call' = [call EXCEPT ![h] =
          IF resp.out = "ok" /\ dec.ok
          THEN Ended("read_file", c.args, tr \o <<LogEv("info")>>, RetStringIO(dec.text), "")
          ELSE Ended("read_file", c.args, tr \o <<LogEv("error")>>, RetNone, "")]
  /\ creates' = EndRuns
  /\ UNCHANGED <<remote, handler>>
  /\ UNCHANGED credVars
  /\ Continued(h)
  /\ UNCHANGED disk

\* DeleteFileMessage with the message of a deletion for every answer.
DeleteFileMessageDeleted(out, b, k) ==
  "The file '" \o k \o "' has been deleted from the bucket '" \o b \o "'."

\* lines 317, 321-322, 326-327: the messages of delete_file; the last
\* literal of the third is no f-string
DeleteFileMessage(out, b, k) ==
  IF out = "ok"
  THEN "The file '" \o k \o "' has been deleted from the bucket '" \o b \o "'."
  ELSE IF IsClientError(out)
  THEN "Client Error: Unable to delete the file '" \o k \o "' from the bucket '"
       \o b \o "'."
  ELSE "Error: Unexpected error occurred while deleting the file '" \o k
       \o "'from the bucket '{bucket_name}'."

\* delete_file: ClientError and Exception are both caught
DeleteFile(h, b, k, fault) ==
  /\ CanStart(h)
  /\ LET resp == ClientDeleteObject(remote, b, k, fault)
         tr == << ReqEv("delete_object", resp.out),
                  LogEv(IF resp.out = "ok" THEN "info" ELSE "error") >>
         a == [bucket_name |-> b, file_name |-> k]
     IN /\ remote' = resp.remote
        /\ call' = [call EXCEPT ![h] =
             Ended("delete_file", a, tr, RetStr(DeleteFileMessage(resp.out, b, k)), "")]
  /\ creates' = EndRuns
  /\ UNCHANGED handler
  /\ UNCHANGED credVars
  /\ Started(h)
  /\ UNCHANGED disk

\* lines 342-344: the request copy_object makes
CopyRequest(sb, sk, db, dk) ==
  [Bucket |-> db, CopySource |-> [Bucket |-> sb, Key |-> sk], Key |-> dk]

\* CopyObjectResult with no record for a ClientError.
CopyObjectResultSilent(resp) ==
  LET tr == <<LogEv("info"), ReqEv("copy_object", resp.out)>>
  IN IF resp.out = "ok"
     THEN [trace |-> tr \o <<LogEv("info")>>, raised |-> ""]
     ELSE IF IsClientError(resp.out)
     THEN [trace |-> tr, raised |-> ""]
     ELSE [trace |-> tr, raised |-> "Exception"]

\* copy_object as a function of the client's answer: only ClientError is caught
CopyObjectResult(resp) ==
  LET tr == <<LogEv("info"), ReqEv("copy_object", resp.out)>>
  IN IF resp.out = "ok"
     THEN [trace |-> tr \o <<LogEv("info")>>, raised |-> ""]
     ELSE IF IsClientError(resp.out)
     THEN [trace |-> tr \o <<LogEv("error")>>, raised |-> ""]
     ELSE [trace |-> tr, raised |-> "Exception"]

CopyObject(h, sb, sk, db, dk, fault) ==
  /\ CanStart(h)
  /\ LET resp == ClientCopyObject(remote, CopyRequest(sb, sk, db, dk), fault)
         r == CopyObjectResult(resp)
         a == [source_bucket |-> sb, source_object |-> sk,
               destination_bucket |-> db, destination_object |-> dk]
     IN /\ remote' = resp.remote
        /\ call' = [call EXCEPT ![h] =
                      Ended("copy_object", a, r.trace, RetNone, r.raised)]
  /\ creates' = EndRuns
  /\ UNCHANGED handler
  /\ UNCHANGED credVars
  /\ Started(h)
  /\ UNCHANGED disk

\* move_object, lines 360-362: the call of copy_object; an exception that
\* leaves copy_object leaves move_object
MoveObjectCopy(h, sb, sk, db, dk, fault) ==
  /\ CanStart(h)
  /\ LET resp == ClientCopyObject(remote, CopyRequest(sb, sk, db, dk), fault)
         r == CopyObjectResult(resp)
         a == [source_bucket |-> sb, source_object |-> sk,
               destination_bucket |-> db, destination_object |-> dk]
     IN /\ remote' = resp.remote
        /\ call' = [call EXCEPT ![h] =
             IF r.raised # ""
             THEN Ended("move_object", a, r.trace, RetNone, r.raised)
             ELSE Pending("move_object", a, "delete", r.trace)]
  /\ creates' = EndRuns
  /\ UNCHANGED handler
  /\ UNCHANGED credVars
  /\ Started(h)
  /\ UNCHANGED disk

\* move_object, line 363: delete_object(source_bucket, source_object), whatever
\* copy_object logged
MoveObjectDelete(h, fault) ==
  /\ call[h].pc = "delete"
  /\ LET c == call[h]
         resp == ClientDeleteObject(remote, c.args.source_bucket,
                                    EffectiveKey("", c.args.source_object), fault)
         r == DeleteObjectResult(resp)
     IN /\ remote' = resp.remote
        /\ call' = [call EXCEPT ![h] =
             Ended("move_object", c.args, c.trace \o r.trace, RetNone, r.raised)]
  /\ creates' = EndRuns
  /\ UNCHANGED handler
  /\ UNCHANGED credVars
  /\ Continued(h)
  /\ UNCHANGED disk

\* get_object_metadata: only ClientError is caught
GetObjectMetadata(h, b, k, fault) ==
  /\ CanStart(h)
  /\ LET resp == ClientHeadObject(remote, b, k, fault)
         tr == <<LogEv("info"), ReqEv("head_object", resp.out)>>
         a == [bucket_name |-> b, object_name |-> k]
         o == "get_object_metadata"
     IN call' = [call EXCEPT ![h] =
          IF resp.out = "ok"
          THEN Ended(o, a, tr \o <<LogEv("info")>>, RetDict(resp.val), "")
          ELSE IF IsClientError(resp.out)
          THEN Ended(o, a, tr \o <<LogEv("error")>>, RetNone, "")
          ELSE Ended(o, a, tr, RetNone, "Exception")]
  /\ creates' = EndRuns
  /\ UNCHANGED <<remote, handler>>
  /\ UNCHANGED credVars
  /\ Started(h)
  /\ UNCHANGED disk

\* download_file: ClientError and Exception are both caught
DownloadFile(h, b, k, f, fault) ==
  /\ CanStart(h)
  /\ LET resp == ClientDownloadFile(remote, disk, b, k, f, fault)
         tr == << ReqEv("download_file", resp.out),
                  LogEv(IF resp.out = "ok" THEN "info" ELSE "error") >>
         a == [bucket_name |-> b, object_name |-> k, file_name |-> f]
     IN /\ disk' = resp.disk
        /\ call' = [call EXCEPT ![h] = Ended("download_file", a, tr, RetNone, "")]
  /\ creates' = EndRuns
  /\ UNCHANGED <<remote, handler>>
  /\ UNCHANGED credVars
  /\ Started(h)

\* The shape shared by the methods that catch ClientError only and return
\* ret when the request succeeds: a record at info level, the request, a
\* record at info level; a record at error level and None for a
\* ClientError; any other exception leaves the method.
EndedClientErrorOnly(o, a, api, out, ret) ==
  LET tr == <<LogEv("info"), ReqEv(api, out)>>
  IN IF out = "ok"
     THEN Ended(o, a, tr \o <<LogEv("info")>>, ret, "")
     ELSE IF IsClientError(out)
     THEN Ended(o, a, tr \o <<LogEv("error")>>, RetNone, "")
     ELSE Ended(o, a, tr, RetNone, "Exception")

\* list_objects_by_prefix: one record for each object listed, or one record
\* that there is none; nothing is returned
ListObjectsByPrefix(h, b, prefix, fault) ==
  /\ CanStart(h)
  /\ LET resp == ClientListObjectsV2Prefix(remote, b, prefix, fault)
         tr == <<LogEv("info"), ReqEv("list_objects_v2", resp.out)>>
         a == [bucket_name |-> b, prefix |-> prefix]
         o == "list_objects_by_prefix"
     IN call' = [call EXCEPT ![h] =
          IF resp.out = "ok"
          THEN Ended(o, a,
                     tr \o (IF resp.val # <<>>
                            THEN [i \in DOMAIN resp.val |-> LogEv("info")]
                            ELSE <<LogEv("info")>>),
                     RetNone, "")
          ELSE IF IsClientError(resp.out)
          THEN Ended(o, a, tr \o <<LogEv("error")>>, RetNone, "")
          ELSE Ended(o, a, tr, RetNone, "Exception")]
  /\ creates' = EndRuns
  /\ UNCHANGED <<remote, handler>>
  /\ UNCHANGED credVars
  /\ Started(h)
  /\ UNCHANGED disk

\* set_object_acl
SetObjectAcl(h, b, k, acl, fault) ==
  /\ CanStart(h)
  /\ LET resp == ClientPutObjectAcl(remote, b, k, acl, fault)
         a == [bucket_name |-> b, object_name |-> k, acl |-> acl]
     IN /\ remote' = resp.remote
        /\ call' = [call EXCEPT ![h] =
             EndedClientErrorOnly("set_object_acl", a, "put_object_acl", resp.out, RetNone)]
  /\ creates' = EndRuns
  /\ UNCHANGED handler
  /\ UNCHANGED credVars
  /\ Started(h)
  /\ UNCHANGED disk

\* enable_versioning
EnableVersioning(h, b, fault) ==
  /\ CanStart(h)
  /\ LET resp == ClientPutBucketVersioning(remote, b, "Enabled", fault)
         a == [bucket_name |-> b]
     IN /\ remote' = resp.remote
        /\ call' = [call EXCEPT ![h] =
             EndedClientErrorOnly("enable_versioning", a, "put_bucket_versioning",
                                  resp.out, RetNone)]
  /\ creates' = EndRuns
  /\ UNCHANGED handler
  /\ UNCHANGED credVars
  /\ Started(h)
  /\ UNCHANGED disk

\* DisableVersioning with a request that removes the versioning status.
DisableVersioningUnsets(h, b, fault) ==
  /\ CanStart(h)
  /\ LET resp == ClientPutBucketVersioning(remote, b, "", fault)
         a == [bucket_name |-> b]
     IN /\ remote' = resp.remote
        /\ call' = [call EXCEPT ![h] =
             EndedClientErrorOnly("disable_versioning", a, "put_bucket_versioning",
                                  resp.out, RetNone)]
  /\ creates' = EndRuns
  /\ UNCHANGED handler
  /\ UNCHANGED credVars
  /\ Started(h)
  /\ UNCHANGED disk

\* disable_versioning
DisableVersioning(h, b, fault) ==
  /\ CanStart(h)
  /\ LET resp == ClientPutBucketVersioning(remote, b, "Suspended", fault)
         a == [bucket_name |-> b]
     IN /\ remote' = resp.remote
        /\ call' = [call EXCEPT ![h] =
             EndedClientErrorOnly("disable_versioning", a, "put_bucket_versioning",
                                  resp.out, RetNone)]
  /\ creates' = EndRuns
  /\ UNCHANGED handler
  /\ UNCHANGED credVars
  /\ Started(h)
  /\ UNCHANGED disk

\* restore_archived_object
RestoreArchivedObject(h, b, k, fault) ==
  /\ CanStart(h)
  /\ LET resp == ClientRestoreObject(remote, b, k, fault)
         a == [bucket_name |-> b, object_name |-> k]
     IN /\ remote' = resp.remote
        /\ call' = [call EXCEPT ![h] =
             EndedClientErrorOnly("restore_archived_object", a, "restore_object",
                                  resp.out, RetNone)]
  /\ creates' = EndRuns
  /\ UNCHANGED handler
  /\ UNCHANGED credVars
  /\ Started(h)
  /\ UNCHANGED disk

\* set_bucket_cors_policy
SetBucketCorsPolicy(h, b, rules, fault) ==
  /\ CanStart(h)
  /\ LET resp == ClientPutBucketCors(remote, b, rules, fault)
         a == [bucket_name |-> b, cors_rules |-> rules]
     IN /\ remote' = resp.remote
        /\ call' = [call EXCEPT ![h] =
             EndedClientErrorOnly("set_bucket_cors_policy", a, "put_bucket_cors",
                                  resp.out, RetNone)]
  /\ creates' = EndRuns
  /\ UNCHANGED handler
  /\ UNCHANGED credVars
  /\ Started(h)
  /\ UNCHANGED disk

\* get_bucket_encryption
GetBucketEncryption(h, b, fault) ==
  /\ CanStart(h)
  /\ LET resp == ClientGetBucketEncryption(remote, b, fault)
         a == [bucket_name |-> b]
     IN call' = [call EXCEPT ![h] =
          EndedClientErrorOnly("get_bucket_encryption", a, "get_bucket_encryption",
                               resp.out, RetDict(resp.val))]
  /\ creates' = EndRuns
  /\ UNCHANGED <<remote, handler>>
  /\ UNCHANGED credVars
  /\ Started(h)
  /\ UNCHANGED disk

\* ------------------------------------------------------------------------
\* Specifications
\* ------------------------------------------------------------------------

\* No call of get_credentials is in progress.
CredIdle ==
  /\ environ = [n \in EnvNames |-> PyNone]
  /\ environ0 = environ
  /\ dotenv = [n \in EnvNames |-> PyNone]
  /\ cpc = "idle"
  /\ creds = <<PyNone, PyNone, PyNone>>
  /\ loaded = FALSE
  /\ outcome = ""

\* No handler has been built.
NoHandler ==
  /\ remote = EmptyAccount
  /\ handler = [h \in {} |-> NoArgs]
  /\ call = [h \in {} |-> IdleCall]
  /\ creates = [h \in {} |-> NoRun]
  /\ remote0 = [h \in {} |-> EmptyAccount]
  /\ trip = [h \in {} |-> NoTrip]
  /\ disk = NoFiles

\* One handler, built with or without a region, over an empty account.
Init ==
  /\ CredIdle
  /\ remote = EmptyAccount
  /\ handler \in [{"h1"} -> {InitHandler(r) : r \in Regions}]
  /\ call = [h \in {"h1"} |-> IdleCall]
  /\ creates = [h \in {"h1"} |-> NoRun]
  /\ remote0 = [h \in {"h1"} |-> EmptyAccount]
  /\ trip = [h \in {"h1"} |-> NoTrip]
  /\ disk = NoFiles

Next ==
  \E h \in DOMAIN handler, fault \in Faults :
    \/ ListBuckets(h, fault)
    \/ \E b \in Buckets : CreateBucketCheck(h, b, fault)
    \/ CreateBucketCreate(h, fault)
    \/ \E b \in Buckets : DeleteBucket(h, b, fault)
    \/ \E b \in Buckets, k \in Keys : CheckObjectExists(h, b, k, fault)
    \/ \E b \in Buckets : ListObjects(h, b, fault)
    \/ \E b \in Buckets, fn \in FolderedNames : DeleteObject(h, b, fn, fault)
    \/ \E b \in Buckets, k \in Keys, e \in Expirations :
         GeneratePresignedUrl(h, b, k, e, fault)
    \/ \E b \in Buckets, fn \in FolderedNames, body \in Payloads :
         UploadFile(h, b, fn, body, fault)
    \/ \E b \in Buckets, k \in Keys : ReadFileList(h, b, k, fault)
    \/ ReadFileGet(h, fault)
    \/ \E b \in Buckets, k \in Keys : DeleteFile(h, b, k, fault)
    \/ \E t \in Transfers : CopyObject(h, t[1], t[2], t[3], t[4], fault)
    \/ \E t \in Transfers : MoveObjectCopy(h, t[1], t[2], t[3], t[4], fault)
    \/ MoveObjectDelete(h, fault)
    \/ \E b \in Buckets, k \in Keys : GetObjectMetadata(h, b, k, fault)

Spec == Init /\ [][Next]_vars

\* Every operation of the handler, on the bucket "b1" and its keys: the
\* operations of Spec and download_file, list_objects_by_prefix,
\* set_object_acl, the versioning operations, restore_archived_object,
\* set_bucket_cors_policy and get_bucket_encryption.
TheBucket == "b1"

\* the payload uploaded under SpecAll
ThePayload == <<104, 195, 169>>

NextAll ==
  \E h \in DOMAIN handler, fault \in Faults :
    \/ ListBuckets(h, fault)
    \/ CreateBucketCheck(h, TheBucket, fault)
    \/ CreateBucketCreate(h, fault)
    \/ DeleteBucket(h, TheBucket, fault)
    \/ \E k \in Keys : CheckObjectExists(h, TheBucket, k, fault)
    \/ ListObjects(h, TheBucket, fault)
    \/ \E fn \in FolderedNames : DeleteObject(h, TheBucket, fn, fault)
    \/ \E k \in Keys, e \in Expirations :
         GeneratePresignedUrl(h, TheBucket, k, e, fault)
    \/ \E fn \in FolderedNames : UploadFile(h, TheBucket, fn, ThePayload, fault)
    \/ \E k \in Keys : ReadFileList(h, TheBucket, k, fault)
    \/ ReadFileGet(h, fault)
    \/ \E k \in Keys : DeleteFile(h, TheBucket, k, fault)
    \/ \E k, dk \in Keys : CopyObject(h, TheBucket, k, TheBucket, dk, fault)
    \/ \E k, dk \in Keys : MoveObjectCopy(h, TheBucket, k, TheBucket, dk, fault)
    \/ MoveObjectDelete(h, fault)
    \/ \E k \in Keys : GetObjectMetadata(h, TheBucket, k, fault)
    \/ \E k \in Keys, f \in Files : DownloadFile(h, TheBucket, k, f, fault)
    \/ \E prefix \in Prefixes : ListObjectsByPrefix(h, TheBucket, prefix, fault)
    \/ \E k \in Keys, acl \in Acls : SetObjectAcl(h, TheBucket, k, acl, fault)
    \/ EnableVersioning(h, TheBucket, fault)
    \/ DisableVersioning(h, TheBucket, fault)
    \/ \E k \in Keys : RestoreArchivedObject(h, TheBucket, k, fault)
    \/ \E rules \in CorsRuleSets : SetBucketCorsPolicy(h, TheBucket, rules, fault)
    \/ GetBucketEncryption(h, TheBucket, fault)

SpecAll == Init /\ [][NextAll]_vars

\* Two handlers over one account, each built with or without a region; two
\* handlers of one binding also stand for two threads that share a handler.
\* Their calls interleave request by request on the bucket "b1" and the
\* key "a".
TheKey == <<"", "a">>

InitTwo ==
  /\ CredIdle
  /\ remote = EmptyAccount
  /\ handler \in [{"h1", "h2"} -> {InitHandler(r) : r \in Regions}]
  /\ call = [h \in {"h1", "h2"} |-> IdleCall]
  /\ creates = [h \in {"h1", "h2"} |-> NoRun]
  /\ remote0 = [h \in {"h1", "h2"} |-> EmptyAccount]
  /\ trip = [h \in {"h1", "h2"} |-> NoTrip]
  /\ disk = NoFiles

NextTwo ==
  \E h \in DOMAIN handler, fault \in Faults :
    \/ ListBuckets(h, fault)
    \/ CreateBucketCheck(h, TheBucket, fault)
    \/ CreateBucketCreate(h, fault)
    \/ ListObjects(h, TheBucket, fault)
    \/ UploadFile(h, TheBucket, TheKey, ThePayload, fault)
    \/ ReadFileList(h, TheBucket, TheKey[2], fault)
    \/ ReadFileGet(h, fault)
    \/ DeleteObject(h, TheBucket, TheKey, fault)
    \/ CheckObjectExists(h, TheBucket, TheKey[2], fault)
    \/ DeleteBucket(h, TheBucket, fault)

SpecTwo == InitTwo /\ [][NextTwo]_vars

\* get_credentials called once, for every environment and every .env file.
InitCred ==
  /\ environ \in {e \in [EnvNames -> UNION {EnvValues(n) : n \in EnvNames}] :
                    \A n \in EnvNames : e[n] \in EnvValues(n)}
  /\ environ0 = environ
  /\ dotenv \in {f \in [EnvNames -> UNION {FileValues(n) : n \in EnvNames}] :
                   \A n \in EnvNames : f[n] \in FileValues(n)}
  /\ cpc = "start"
  /\ creds = <<PyNone, PyNone, PyNone>>
  /\ loaded = FALSE
  /\ outcome = ""
  /\ NoHandler

NextCred ==
  \/ CredRead
  \/ CredFallback
  \/ CredNoFallback
  \/ CredRaise
  \/ CredReturn

SpecCred == InitCred /\ [][NextCred]_vars

\* ------------------------------------------------------------------------
\* Properties of the storage handler (under Spec)
\* ------------------------------------------------------------------------

\* The call of handler h has ended (returned or raised) and was a call of o.
EndedCall(h, o) == call[h].pc = "done" /\ call[h].op = o

\* UTF-8 of a text given as code points below 0x800.
RECURSIVE Utf8Encode(_)
Utf8Encode(text) ==
  IF text = <<>> THEN <<>>
  ELSE (IF text[1] < 128 THEN <<text[1]>>
        ELSE <<192 + (text[1] \div 64), 128 + (text[1] % 64)>>)
       \o Utf8Encode(Tail(text))

\* Well-formed UTF-8, for bytes below 0xE0 (Unicode, table 3-7).
RECURSIVE WellFormedUtf8(_)
WellFormedUtf8(bs) ==
  \/ bs = <<>>
  \/ bs[1] \in 0 .. 127 /\ WellFormedUtf8(Tail(bs))
  \/ /\ Len(bs) >= 2
     /\ bs[1] \in 194 .. 223
     /\ bs[2] \in 128 .. 191
     /\ WellFormedUtf8(Tail(Tail(bs)))

\* The value returned is the Boolean v, the string v.
IsBool(r, v) == r.kind = "bool" /\ r.val = v

IsStr(r, v) == r.kind = "str" /\ r.val = v

\* The value returned is a text whose UTF-8 encoding is the object's bytes.
IsTextOf(r, b, k) ==
  r.kind = "StringIO" /\ HasObject(remote, b, k) /\ Utf8Encode(r.val) = remote.objects[b][k]

\* The outcomes of the requests of a call, in order.
Outs(c) == [i \in DOMAIN Reqs(c) |-> Reqs(c)[i].out]

\* C1, as stated and read in its favour (a handler built with a region, a
\* name the account does not hold, listings that succeed): two
\* create_bucket(name) calls in sequence, nothing in between, make exactly
\* one creation request.
C1_ExactlyOneCreationRequest ==
  \A h \in DOMAIN creates :
    LET outs == creates[h].outs
    IN (/\ call[h].pc = "done"
        /\ Len(outs) >= 2
        /\ HasLocation(h)
        /\ outs[1] \in Requested
        /\ outs[2] # "list_failed")
         => Cardinality({i \in 1 .. 2 : outs[i] \in Requested}) = 1

\* C1, amended: in a run of create_bucket(name) calls in sequence, once a
\* call's creation request has succeeded no later call makes a creation
\* request: exactly one request is made when the first call's succeeds, and
\* no two creation requests both succeed.  After a call whose creation
\* request failed, or that made none, the next call makes a request again
\* unless the name is listed, the listing fails or the handler has no
\* location.
C1_NoCreationAfterSuccess ==
  \A h \in DOMAIN creates :
    LET outs == creates[h].outs
    IN /\ \A i, j \in DOMAIN outs :
            (i < j /\ outs[i] = "ok") => outs[j] \in {"listed", "list_failed"}
       /\ \A i \in DOMAIN outs :
            /\ outs[i] \in Requested => HasLocation(h)
            /\ outs[i] = "no_location" => ~ HasLocation(h)
            /\ (i > 1 /\ outs[i - 1] = "failed") => outs[i] # "listed"

\* C1 witness: a first call created the bucket, a second call of the same
\* name found it listed and made no creation request.
C1_Witness ==
  \E h \in DOMAIN creates :
    /\ EndedCall(h, "create_bucket")
    /\ creates[h].outs = <<"ok", "listed">>
    /\ Outs(call[h]) = <<"ok">>

\* move_object ended after a copy that succeeded and a delete the provider
\* rejected.
MoveCopiedNotDeleted(h) ==
  /\ EndedCall(h, "move_object")
  /\ Len(Reqs(call[h])) = 2
  /\ Outs(call[h])[1] = "ok"
  /\ IsClientError(Outs(call[h])[2])

\* C2: when move's copy succeeds and its delete is rejected by the provider,
\* move returns and the object is at the source and at the destination.
C2_MoveReturnsWithBothCopies ==
  \A h \in DOMAIN call :
    MoveCopiedNotDeleted(h) =>
      LET a == call[h].args
      IN /\ call[h].raised = ""
         /\ HasObject(remote, a.source_bucket, a.source_object)
         /\ HasObject(remote, a.destination_bucket, a.destination_object)

\* A request of the call failed.
SomeRequestFailed(c) == \E i \in DOMAIN Reqs(c) : Reqs(c)[i].out # "ok"

\* C3, as stated: read_file returns the stored content when the key is in
\* the bucket, the sentinel when the listing lacks the key, and None when a
\* request raises; these are all its outcomes and no two conditions share
\* one.
C3_ReadThreeOutcomes ==
  \A h \in DOMAIN call :
    EndedCall(h, "read_file") =>
      LET c == call[h]
          b == c.args.bucket_name
          k == c.args.object_name
      IN /\ c.raised = ""
         /\ SomeRequestFailed(c) <=> c.ret.kind = "None"
         /\ (~ SomeRequestFailed(c) /\ ~ HasObject(remote, b, k))
              <=> IsStr(c.ret, FileNotInBucket)
         /\ (~ SomeRequestFailed(c) /\ HasObject(remote, b, k))
              <=> IsTextOf(c.ret, b, k)

\* C3, amended: read_file returns text whose UTF-8 encoding is the stored
\* bytes when the key is in the bucket and the stored bytes are well-formed
\* UTF-8; the sentinel when the listing lacks the key; None when a request
\* raises or the stored bytes are not UTF-8.  It has no other outcome and
\* raises nothing.
C3_ReadOutcomes ==
  \A h \in DOMAIN call :
    EndedCall(h, "read_file") =>
      LET c == call[h]
          b == c.args.bucket_name
          k == c.args.object_name
          listed == ~ SomeRequestFailed(c) /\ HasObject(remote, b, k)
      IN /\ c.raised = ""
         /\ (~ SomeRequestFailed(c) /\ ~ HasObject(remote, b, k))
              <=> IsStr(c.ret, FileNotInBucket)
         /\ (listed /\ WellFormedUtf8(remote.objects[b][k]))
              <=> IsTextOf(c.ret, b, k)
         /\ (SomeRequestFailed(c) \/ (listed /\ ~ WellFormedUtf8(remote.objects[b][k])))
              <=> c.ret.kind = "None"

\* C3 witness: a read returned the text of an object whose bytes hold a
\* two-byte character.
C3_Witness ==
  \E h \in DOMAIN call :
    /\ EndedCall(h, "read_file")
    /\ call[h].ret.kind = "StringIO"
    /\ Len(call[h].ret.val) < Len(remote.objects[call[h].args.bucket_name]
                                                [call[h].args.object_name])

\* C4, as stated: check_object_exists returns True when head_object succeeds,
\* False for a ClientError of code 404, and a result other than False for a
\* ClientError of any other code.
C4_OtherCodesDistinctResult ==
  \A h \in DOMAIN call :
    EndedCall(h, "check_object_exists") =>
      LET c == call[h]
          out == Outs(c)[1]
      IN /\ out = "ok" => IsBool(c.ret, TRUE)
         /\ out = "ClientError404" => IsBool(c.ret, FALSE)
         /\ out = "ClientError" => (c.raised = "" /\ ~ IsBool(c.ret, FALSE))

\* C4, amended: check_object_exists returns True when head_object succeeds
\* and False for every ClientError; code 404 and the other codes differ only
\* in the level of the log record (warning for 404, error otherwise).
C4_FalseForEveryClientError ==
  \A h \in DOMAIN call :
    EndedCall(h, "check_object_exists") =>
      LET c == call[h]
          out == Outs(c)[1]
          lastLog == Logs(c)[Len(Logs(c))].name
      IN /\ out = "ok" <=> IsBool(c.ret, TRUE)
         /\ IsClientError(out) <=> IsBool(c.ret, FALSE)
         /\ IsClientError(out) => c.raised = ""
         /\ out = "ClientError404" => lastLog = "warning"
         /\ out = "ClientError" => lastLog = "error"

\* C4 witness: a ClientError of a code other than 404 gave False.
C4_Witness ==
  \E h \in DOMAIN call :
    /\ EndedCall(h, "check_object_exists")
    /\ Outs(call[h]) = <<"ClientError">>
    /\ IsBool(call[h].ret, FALSE)

\* C5: a call whose requests failed only with ClientError lets no exception
\* escape.
C5_ClientErrorNeverEscapes ==
  \A h \in DOMAIN call :
    LET c == call[h]
    IN (/\ c.pc = "done"
        /\ \E i \in DOMAIN Reqs(c) : IsClientError(Reqs(c)[i].out)
        /\ \A i \in DOMAIN Reqs(c) : Reqs(c)[i].out # "Exception")
         => c.raised = ""

\* C6: a call one of whose requests raised a non-provider exception lets no
\* exception escape.
C6_UnexpectedNeverEscapes ==
  \A h \in DOMAIN call :
    LET c == call[h]
    IN (/\ c.pc = "done"
        /\ \E i \in DOMAIN Reqs(c) : Reqs(c)[i].out = "Exception")
         => c.raised = ""

\* ------------------------------------------------------------------------
\* Properties of the credential resolver (under SpecCred)
\* ------------------------------------------------------------------------

\* The environment has a usable value for the name.
InEnv(n) == Truthy(environ0[n])

\* The .env file has a usable value for the name.
InFile(n) == Truthy(dotenv[n])

\* What a read of the name gives once the file's values were added to the
\* environment: the environment's value when it has one.
AfterLoad(n) == IF environ0[n] # PyNone THEN environ0[n] ELSE dotenv[n]

\* C7, as stated: with identifier and secret in the environment,
\* get_credentials returns the environment's three values, whatever the file
\* holds.
C7_EnvironmentBundle ==
  (cpc = "done" /\ InEnv("AWS_ACCESS_KEY_ID") /\ InEnv("AWS_SECRET_ACCESS_KEY"))
    => (outcome = "returned" /\ creds = ReadCreds(environ0))

\* C7, amended: with identifier and secret in the environment, the file
\* never changes them.  With a region in the environment too, get_credentials
\* returns the environment's three values and does not read the file; with no
\* region there it returns the environment's identifier and secret and the
\* file's region, and raises ValueError when the file has no region either.
C7_EnvironmentKeysKept ==
  (cpc = "done" /\ InEnv("AWS_ACCESS_KEY_ID") /\ InEnv("AWS_SECRET_ACCESS_KEY"))
    => IF InEnv("REGION")
       THEN outcome = "returned" /\ ~ loaded /\ creds = ReadCreds(environ0)
       ELSE IF Truthy(AfterLoad("REGION"))
       THEN /\ outcome = "returned"
            /\ creds = << environ0["AWS_ACCESS_KEY_ID"],
                          environ0["AWS_SECRET_ACCESS_KEY"], dotenv["REGION"] >>
       ELSE outcome = "ValueError"

\* C7 witness: all three in the environment, a file with other values, and
\* the environment's values returned.
C7_Witness ==
  /\ cpc = "done"
  /\ \A n \in EnvNames : InEnv(n) /\ InFile(n)
  /\ outcome = "returned"
  /\ creds = ReadCreds(environ0)

\* C8: when the identifier, or the secret, is missing or empty in both the
\* environment and the file, get_credentials raises and returns no bundle.
C8_MissingKeyRaises ==
  (/\ cpc = "done"
   /\ \E n \in {"AWS_ACCESS_KEY_ID", "AWS_SECRET_ACCESS_KEY"} : ~ InEnv(n) /\ ~ InFile(n))
    => outcome = "ValueError"

\* C8 witness: the secret is nowhere, everything else is in the environment,
\* and get_credentials has raised after reading the file.
C8_Witness ==
  /\ cpc = "done"
  /\ InEnv("AWS_ACCESS_KEY_ID") /\ InEnv("REGION")
  /\ ~ InEnv("AWS_SECRET_ACCESS_KEY") /\ ~ InFile("AWS_SECRET_ACCESS_KEY")
  /\ loaded
  /\ outcome = "ValueError"

\* C9: with identifier and secret available and the region in neither the
\* environment nor the file, get_credentials returns a bundle with no region.
C9_RegionOptional ==
  (/\ cpc = "done"
   /\ Truthy(AfterLoad("AWS_ACCESS_KEY_ID"))
   /\ Truthy(AfterLoad("AWS_SECRET_ACCESS_KEY"))
   /\ environ0["REGION"] = PyNone
   /\ dotenv["REGION"] = PyNone)
    => (outcome = "returned" /\ creds[3] = PyNone)

\* C10: get_credentials reads the file exactly when one of the three values
\* is missing (unset or empty) in the environment, and the values it then
\* holds, and returns, are those of the three names read again after the
\* file's values were added.
C10_FallbackOnlyWhenIncomplete ==
  (cpc \in {"check2", "done"}) =>
    /\ loaded <=> (\E n \in EnvNames : ~ InEnv(n))
    /\ creds = IF loaded
               THEN << AfterLoad("AWS_ACCESS_KEY_ID"),
                       AfterLoad("AWS_SECRET_ACCESS_KEY"), AfterLoad("REGION") >>
               ELSE ReadCreds(environ0)
    /\ outcome = "returned" => PyAll(creds)

\* C10 witness: the file was read and the values returned are not those the
\* environment held.
C10_Witness ==
  /\ cpc = "done"
  /\ loaded
  /\ outcome = "returned"
  /\ creds # ReadCreds(environ0)

\* ------------------------------------------------------------------------
\* Round trip, listings and creation without a region (under Spec)
\* ------------------------------------------------------------------------

\* The value returned is the list v.
IsList(r, v) == r.kind = "list" /\ r.val = v

\* The value returned is a text whose UTF-8 encoding is the bytes bs.
IsTextOfBytes(r, bs) == r.kind = "StringIO" /\ Utf8Encode(r.val) = bs

\* C11, as stated: for every bucket b, key k and payload p, after
\* upload_file(b, k, p) into the empty bucket b, list_objects(b) returns [k]
\* and read_file(b, k) returns content equal to p; after the following
\* delete_object(b, k), list_objects(b) returns [].
C11_RoundTrip ==
  \A h \in DOMAIN trip :
    LET t == trip[h]
        c == call[h]
    IN /\ (t.stage = 2 /\ EndedCall(h, "list_objects")) => IsList(c.ret, <<t.key>>)
       /\ t.stage = 3 => IsTextOfBytes(c.ret, t.body)
       /\ t.stage = 5 => IsList(c.ret, <<>>)

\* C11, amended: the round trip holds as stated for every payload that is
\* well-formed UTF-8, read_file then returning the text whose UTF-8 encoding
\* is the payload; for a payload that is not, list_objects still returns [k]
\* and read_file returns None.  No call of the round trip raises.
C11_RoundTripOfText ==
  \A h \in DOMAIN trip :
    LET t == trip[h]
        c == call[h]
    IN /\ t.stage > 0 => c.raised = ""
       /\ (t.stage = 2 /\ EndedCall(h, "list_objects")) => IsList(c.ret, <<t.key>>)
       /\ t.stage = 3 =>
            IF WellFormedUtf8(t.body)
            THEN IsTextOfBytes(c.ret, t.body)
            ELSE c.ret.kind = "None"
       /\ t.stage = 5 => IsList(c.ret, <<>>)

\* C11: a round trip of a text made to its end, the last listing empty.
C11_Witness ==
  \E h \in DOMAIN trip :
    /\ trip[h].stage = 5
    /\ WellFormedUtf8(trip[h].body)
    /\ EndedCall(h, "list_objects")
    /\ IsList(call[h].ret, <<>>)

\* The position of a key in the order of S3's listings.
KeyPos(k) == CHOOSE i \in DOMAIN KeyOrder : KeyOrder[i] = k

\* v lists exactly the keys of the set ks, each once, in order.
IsListingOf(v, ks) ==
  /\ {v[i] : i \in DOMAIN v} = ks
  /\ \A i, j \in DOMAIN v : i < j => KeyPos(v[i]) < KeyPos(v[j])

\* C12: list_objects(bucket) returns the keys of the bucket in order when
\* the request succeeds, which is [] when the bucket holds no object, and
\* returns None when the request fails: never [] for a request that failed,
\* never None for one that succeeded; it raises nothing.
C12_EmptyIsNotFailure ==
  \A h \in DOMAIN call :
    EndedCall(h, "list_objects") =>
      LET c == call[h]
          b == c.args.bucket_name
      IN /\ c.raised = ""
         /\ Len(Outs(c)) = 1
         /\ IF Outs(c)[1] = "ok"
            THEN /\ c.ret.kind = "list"
                 /\ IsListingOf(c.ret.val, DOMAIN remote0[h].objects[b])
            ELSE c.ret.kind = "None"

\* C12: a listing that succeeded on a bucket without objects returned [].
C12_Witness ==
  \E h \in DOMAIN call :
    /\ EndedCall(h, "list_objects")
    /\ Outs(call[h]) = <<"ok">>
    /\ call[h].args.bucket_name \in remote.buckets
    /\ DOMAIN remote.objects[call[h].args.bucket_name] = {}
    /\ IsList(call[h].ret, <<>>)

\* The handler was built without a region (line 52: region is None).
NoRegion(h) == handler[h].client.region_name = PyNone

\* The last event of a call is a log record of this level.
LastLog(c, level) == c.trace # <<>> /\ c.trace[Len(c.trace)] = LogEv(level)

Apis(c) == [i \in DOMAIN Reqs(c) |-> Reqs(c)[i].name]

\* C14, as stated: every operation makes exactly one request in a call,
\* except create_bucket and move_object.
C14_OneRequestPerCall ==
  \A h \in DOMAIN call :
    (call[h].pc = "done" /\ call[h].op \notin {"create_bucket", "move_object"})
      => Len(Reqs(call[h])) = 1

\* C14, amended: a call of the handler makes one call of the client, except
\* create_bucket (list_buckets, then create_bucket when the listing
\* succeeded without the name and the handler has a location), move_object
\* (copy_object, then delete_object unless an exception left the copy) and
\* read_file (list_objects_v2, then get_object when the key is listed),
\* which make two.
C14_RequestsPerCall ==
  \A h \in DOMAIN call :
    LET c == call[h]
        a == c.args
        r0 == remote0[h]
    IN /\ c.pc \notin {"idle", "done"} => Len(Reqs(c)) = 1
       /\ c.pc = "done" =>
            IF c.op = "create_bucket"
            THEN Apis(c) =
                   IF /\ Outs(c)[1] = "ok"
                      /\ a.bucket_name \notin r0.buckets
                      /\ ~ NoRegion(h)
                   THEN <<"list_buckets", "create_bucket">>
                   ELSE <<"list_buckets">>
            ELSE IF c.op = "move_object"
            THEN Apis(c) =
                   IF Outs(c)[1] # "Exception"
                   THEN <<"copy_object", "delete_object">>
                   ELSE <<"copy_object">>
            ELSE IF c.op = "read_file"
            THEN Apis(c) =
                   IF Outs(c)[1] = "ok" /\ HasObject(r0, a.bucket_name, a.object_name)
                   THEN <<"list_objects_v2", "get_object">>
                   ELSE <<"list_objects_v2">>
            ELSE Len(Reqs(c)) = 1

\* C14: read_file returned after its two requests.
C14_Witness ==
  \E h \in DOMAIN call :
    /\ EndedCall(h, "read_file")
    /\ Apis(call[h]) = <<"list_objects_v2", "get_object">>
    /\ call[h].ret.kind = "StringIO"

\* ------------------------------------------------------------------------
\* Reports, URLs, listings and effects (under Spec)
\* ------------------------------------------------------------------------

\* The sentence delete_file returns for a deletion that was made.
DeletedSentence(b, k) ==
  "The file '" \o k \o "' has been deleted from the bucket '" \o b \o "'."

\* The sentences delete_file returns for a deletion that was not made.
NotDeletedSentences(b, k) ==
  { "Client Error: Unable to delete the file '" \o k \o "' from the bucket '"
      \o b \o "'.",
    "Error: Unexpected error occurred while deleting the file '" \o k
      \o "'from the bucket '{bucket_name}'." }

\* C15: delete_file(bucket, key) always returns a sentence: the sentence of
\* a deletion when the delete request succeeds, a sentence of failure when
\* the provider rejects the request or another exception occurs; it never
\* returns None and never raises.
C15_DeleteFileReports ==
  \A h \in DOMAIN call :
    EndedCall(h, "delete_file") =>
      LET c == call[h]
          b == c.args.bucket_name
          k == c.args.file_name
      IN /\ c.raised = ""
         /\ c.ret.kind = "str"
         /\ Len(Outs(c)) = 1
         /\ IF Outs(c)[1] = "ok"
            THEN c.ret.val = DeletedSentence(b, k)
            ELSE c.ret.val \in NotDeletedSentences(b, k)

\* C15: delete_file reported an exception that is no ClientError.
C15_Witness ==
  \E h \in DOMAIN call :
    /\ EndedCall(h, "delete_file")
    /\ Outs(call[h]) = <<"Exception">>
    /\ call[h].raised = ""
    /\ call[h].ret.kind = "str"
    /\ call[h].ret.val \in
         NotDeletedSentences(call[h].args.bucket_name, call[h].args.file_name)

C17_ListBuckets ==
  \A h \in DOMAIN call :
    EndedCall(h, "list_buckets") =>
      LET c == call[h]
      IN /\ c.raised = ""
         /\ Len(Outs(c)) = 1
         /\ IF Outs(c)[1] = "ok"
            THEN /\ c.ret.kind = "list"
                 /\ c.ret.val = ClientListBuckets(remote0[h], "none").val
                 /\ {c.ret.val[i] : i \in DOMAIN c.ret.val} = remote0[h].buckets
                 /\ (remote0[h].buckets = {} => c.ret.val = <<>>)
            ELSE c.ret.kind = "None"

\* C17: the buckets of an account that has two were listed in order.
C17_Witness ==
  \E h \in DOMAIN call :
    /\ EndedCall(h, "list_buckets")
    /\ IsList(call[h].ret, <<"b1", "b2">>)

\* The objects of the accounts r and r0 are the same, but for the key k of
\* the bucket b.
SameObjectsBut(r, r0, b, k) ==
  \A b2 \in Buckets :
    \A k2 \in DOMAIN r.objects[b2] \cup DOMAIN r0.objects[b2] :
      (b2 # b \/ k2 # k) =>
        /\ k2 \in DOMAIN r.objects[b2]
        /\ k2 \in DOMAIN r0.objects[b2]
        /\ r.objects[b2][k2] = r0.objects[b2][k2]

\* C18: after upload_file(bucket, filename, file, folder) whose request
\* succeeded, the object at the key folder ++ filename holds the whole
\* payload, whatever the key held before, and no other key and no bucket is
\* changed; so after successful uploads to one key its content is the
\* payload of the last.  An upload whose request failed changes nothing.
C18_UploadOverwrites ==
  \A h \in DOMAIN call :
    EndedCall(h, "upload_file") =>
      LET c == call[h]
          b == c.args.bucket_name
          k == c.args.folder \o c.args.filename
      IN /\ remote.buckets = remote0[h].buckets
         /\ IF Outs(c) = <<"ok">>
            THEN /\ HasObject(remote, b, k)
                 /\ remote.objects[b][k] = c.args.file
                 /\ SameObjectsBut(remote, remote0[h], b, k)
            ELSE remote.objects = remote0[h].objects

\* C18: an upload with a folder replaced another payload at its key, in a
\* bucket that holds another key.
C18_Witness ==
  \E h \in DOMAIN call :
    LET c == call[h]
        b == c.args.bucket_name
        k == c.args.folder \o c.args.filename
    IN /\ EndedCall(h, "upload_file")
       /\ Outs(c) = <<"ok">>
       /\ c.args.folder # ""
       /\ HasObject(remote0[h], b, k)
       /\ remote0[h].objects[b][k] # c.args.file
       /\ remote.objects[b][k] = c.args.file
       /\ DOMAIN remote.objects[b] # {k}

\* C19: delete_object(bucket, key, folder) makes one request, a delete
\* request, with no request before it, for the key folder ++ key (nothing
\* put between the two); when the request succeeds that key is gone and
\* nothing else is changed.  The provider accepts the request for a key the
\* bucket does not hold: the call then returns normally and the account is
\* as it was.
C19_DeleteObject ==
  \A h \in DOMAIN call :
    EndedCall(h, "delete_object") =>
      LET c == call[h]
          b == c.args.bucket_name
          k == c.args.folder \o c.args.object_name
          r0 == remote0[h]
      IN /\ Apis(c) = <<"delete_object">>
         /\ remote.buckets = r0.buckets
         /\ IF Outs(c) = <<"ok">>
            THEN /\ c.raised = ""
                 /\ k \notin DOMAIN remote.objects[b]
                 /\ SameObjectsBut(remote, r0, b, k)
            ELSE remote.objects = r0.objects
         /\ (b \in r0.buckets /\ k \notin DOMAIN r0.objects[b]) =>
              /\ ClientDeleteObject(r0, b, k, "none").out = "ok"
              /\ Outs(c) = <<"ok">> => remote.objects = r0.objects

\* C19: a key that the bucket did not hold was deleted with a folder, and
\* the bucket's other object is still there.
C19_Witness ==
  \E h \in DOMAIN call :
    LET c == call[h]
        b == c.args.bucket_name
        k == c.args.folder \o c.args.object_name
    IN /\ EndedCall(h, "delete_object")
       /\ c.args.folder # ""
       /\ b \in remote0[h].buckets
       /\ k \notin DOMAIN remote0[h].objects[b]
       /\ DOMAIN remote0[h].objects[b] # {}
       /\ Outs(c) = <<"ok">>
       /\ c.raised = ""
       /\ remote = remote0[h]

C21_VersioningTwoStates ==
  /\ \A b \in Buckets : remote.versioning[b] \in {"", "Enabled", "Suspended"}
  /\ \A h \in DOMAIN call :
       LET c == call[h]
           r0 == remote0[h]
       IN /\ \A b \in r0.buckets \cap remote.buckets :
               r0.versioning[b] # "" => remote.versioning[b] # ""
          /\ (EndedCall(h, "enable_versioning") \/ EndedCall(h, "disable_versioning")) =>
               LET b == c.args.bucket_name
               IN remote.versioning[b] =
                    IF Outs(c) # <<"ok">> THEN r0.versioning[b]
                    ELSE IF c.op = "enable_versioning" THEN "Enabled"
                    ELSE "Suspended"

\* C21: the versioning of a bucket was suspended after it had been enabled.
C21_Witness ==
  \E h \in DOMAIN call :
    /\ EndedCall(h, "disable_versioning")
    /\ Outs(call[h]) = <<"ok">>
    /\ remote0[h].versioning[call[h].args.bucket_name] = "Enabled"
    /\ remote.versioning[call[h].args.bucket_name] = "Suspended"

\* ------------------------------------------------------------------------
\* Log levels, move and the failed existence check (under Spec)
\* ------------------------------------------------------------------------

\* The levels of the log records of a call.
Levels(c) == {Logs(c)[i].name : i \in DOMAIN Logs(c)}

\* C22, as stated: in check_object_exists and in read_file an object that
\* is not found is logged at warning level and never at error level, and
\* every other failure of a request by the provider at error level.
C22_NotFoundIsWarning ==
  \A h \in DOMAIN call :
    LET c == call[h]
    IN /\ (EndedCall(h, "check_object_exists") /\ Outs(c) = <<"ClientError404">>)
            => ("warning" \in Levels(c) /\ "error" \notin Levels(c))
       /\ (EndedCall(h, "read_file") /\ IsStr(c.ret, FileNotInBucket))
            => ("warning" \in Levels(c) /\ "error" \notin Levels(c))
       /\ (/\ c.pc = "done"
           /\ c.op \in {"check_object_exists", "read_file"}
           /\ c.raised = ""
           /\ \E i \in DOMAIN Outs(c) : Outs(c)[i] = "ClientError")
            => "error" \in Levels(c)

\* C22, amended: check_object_exists logs an object that is not found
\* (code "404") at warning level and not at error level; read_file logs a
\* key that is absent from the listing at info level, not at warning and
\* not at error level; in both, a request the provider fails otherwise is
\* logged at error level, the get request for an object deleted since the
\* listing included.
C22_NotFoundLevels ==
  \A h \in DOMAIN call :
    LET c == call[h]
    IN /\ (EndedCall(h, "check_object_exists") /\ Outs(c) = <<"ClientError404">>)
            => (LastLog(c, "warning") /\ "error" \notin Levels(c))
       /\ (EndedCall(h, "read_file") /\ IsStr(c.ret, FileNotInBucket))
            => (Levels(c) = {"info"} /\ Outs(c) = <<"ok">>)
       /\ (/\ c.pc = "done"
           /\ c.op \in {"check_object_exists", "read_file"}
           /\ c.raised = ""
           /\ \E i \in DOMAIN Outs(c) :
                Outs(c)[i] \in {"ClientError", "ClientErrorNoSuchKey"})
            => (LastLog(c, "error") /\ "warning" \notin Levels(c))

\* C22: read_file met a key that is not in the listing and logged it at
\* info level.
C22_Witness ==
  \E h \in DOMAIN call :
    /\ EndedCall(h, "read_file")
    /\ IsStr(call[h].ret, FileNotInBucket)
    /\ call[h].args.bucket_name \in remote.buckets
    /\ LastLog(call[h], "info")

\* ------------------------------------------------------------------------
\* Log records of every operation (under SpecAll)
\* ------------------------------------------------------------------------

\* C23, as stated: every call logs before its first request and at its
\* end, and every request that failed is followed by a log record before
\* the call returns.
C23_LogsOnEntryAndExit ==
  \A h \in DOMAIN call :
    LET c == call[h]
        tr == c.trace
    IN c.pc = "done" =>
         /\ tr[1].t = "log"
         /\ tr[Len(tr)].t = "log"
         /\ \A i \in DOMAIN tr :
              (tr[i].t = "req" /\ tr[i].out # "ok") =>
                (i < Len(tr) /\ tr[i + 1].t = "log")

\* The operations whose first statement is a log record.
LogsOnEntry ==
  { "delete_bucket", "check_object_exists", "delete_object",
    "generate_presigned_url", "copy_object", "move_object",
    "list_objects_by_prefix", "set_object_acl", "get_object_metadata",
    "enable_versioning", "disable_versioning", "restore_archived_object",
    "set_bucket_cors_policy", "get_bucket_encryption" }

\* C23, amended: the operations of LogsOnEntry log at info level before
\* their first request; list_buckets, create_bucket, list_objects,
\* upload_file, download_file, read_file and delete_file start with a
\* request.  A call that returns ends with a log record, and a request that
\* failed in it is followed at once by a record at error or warning level.
\* A call that raises (delete_object and move_object for a ClientError of
\* the delete request; the operations that catch ClientError only, for any
\* other exception) ends with the request that failed, without a record.
C23_LogRecords ==
  \A h \in DOMAIN call :
    LET c == call[h]
        tr == c.trace
    IN c.pc = "done" =>
         /\ IF c.op \in LogsOnEntry THEN tr[1] = LogEv("info") ELSE tr[1].t = "req"
         /\ IF c.raised = ""
            THEN tr[Len(tr)].t = "log"
            ELSE tr[Len(tr)].t = "req" /\ tr[Len(tr)].out # "ok"
         /\ \A i \in DOMAIN tr :
              (tr[i].t = "req" /\ tr[i].out # "ok") =>
                IF i = Len(tr)
                THEN c.raised # ""
                ELSE tr[i + 1].t = "log" /\ tr[i + 1].name \in {"error", "warning"}

\* C23: upload_file started with its request, which the provider
\* rejected, and ended with the error record.
C23_Witness ==
  \E h \in DOMAIN call :
    /\ EndedCall(h, "upload_file")
    /\ call[h].trace = <<ReqEv("put_object", "ClientError"), LogEv("error")>>
    /\ call[h].raised = ""

\* ------------------------------------------------------------------------
\* move_object (under Spec)
\* ------------------------------------------------------------------------

\* The source and the destination of a move_object call.
MoveSource(c) == <<c.args.source_bucket, c.args.source_object>>

MoveDestination(c) == <<c.args.destination_bucket, c.args.destination_object>>

\* The account rem holds the content v at the place p.
HoldsAt(rem, p, v) == HasObject(rem, p[1], p[2]) /\ rem.objects[p[1]][p[2]] = v

\* C27, as stated: when move_object has returned or raised, the content
\* the source held before the call is still at the source or at the
\* destination, and the delete request was made only after a copy request
\* that succeeded.
C27_MoveNeverLoses ==
  \A h \in DOMAIN call :
    LET c == call[h]
        r0 == remote0[h]
    IN (EndedCall(h, "move_object") /\ HasObject(r0, MoveSource(c)[1], MoveSource(c)[2])) =>
         LET v == r0.objects[MoveSource(c)[1]][MoveSource(c)[2]]
         IN /\ HoldsAt(remote, MoveSource(c), v) \/ HoldsAt(remote, MoveDestination(c), v)
            /\ Len(Outs(c)) = 2 => Outs(c)[1] = "ok"

\* C28, as stated: after a move_object whose copy and delete requests both
\* succeeded, the destination holds the content the source held before the
\* call, also when the destination is the source.
C28_MoveDelivers ==
  \A h \in DOMAIN call :
    LET c == call[h]
        r0 == remote0[h]
    IN (EndedCall(h, "move_object") /\ Outs(c) = <<"ok", "ok">>) =>
         HoldsAt(remote, MoveDestination(c),
                 r0.objects[MoveSource(c)[1]][MoveSource(c)[2]])

\* ------------------------------------------------------------------------
\* create_bucket when its listing fails (under Spec)
\* ------------------------------------------------------------------------

\* C29: when the list_buckets request of create_bucket raised, so that
\* list_buckets returned None, create_bucket makes no creation request (the
\* listing is its only request), lets no exception escape, returns None
\* after an error record and leaves the account, the buckets of it
\* included, as it was when the call started.
C29_ListFailureCreatesNothing ==
  \A h \in DOMAIN call :
    LET c == call[h]
    IN (c.op = "create_bucket" /\ Outs(c)[1] # "ok") =>
         /\ c.pc = "done"
         /\ Apis(c) = <<"list_buckets">>
         /\ c.raised = ""
         /\ c.ret = RetNone
         /\ LastLog(c, "error")
         /\ remote.buckets = remote0[h].buckets
         /\ remote = remote0[h]

\* C29: create_bucket of a name the account does not hold, on a handler
\* with a location, ended after a listing request that raised.
C29_Witness ==
  \E h \in DOMAIN call :
    /\ EndedCall(h, "create_bucket")
    /\ Outs(call[h])[1] # "ok"
    /\ HasLocation(h)
    /\ call[h].args.bucket_name \notin remote.buckets
    /\ creates[h].outs = <<"list_failed">>

\* ------------------------------------------------------------------------
\* What the operations leave alone (under SpecAll)
\* ------------------------------------------------------------------------

\* The operations that only read.
ReadOnlyOps ==
  { "list_buckets", "check_object_exists", "list_objects",
    "list_objects_by_prefix", "read_file", "get_object_metadata",
    "get_bucket_encryption", "generate_presigned_url" }

\* The source and the destination of a copy_object call.
CopiedFrom(c) == <<c.args.source_bucket, c.args.source_object>>

CopiedTo(c) == <<c.args.destination_bucket, c.args.destination_object>>

SameEnd(c, d) ==
  /\ c.trace = d.trace
  /\ c.raised = d.raised
  /\ c.ret.kind = d.ret.kind
  /\ c.ret.val = d.ret.val

\* The calls whose requests all read the account as it was when the call
\* started: every call of one request, and the calls of two requests other
\* than read_file, whose second request returns no content.
ReadsAtStart(c) == Len(Reqs(c)) <= 1 \/ c.op # "read_file"

\* Two handlers whose calls are the same operation with the same
\* arguments, on the same binding, over the same account, with the same
\* answers of the provider.
SameCall(h, g) ==
  /\ call[h].pc = "done" /\ call[g].pc = "done"
  /\ call[h].op = call[g].op
  /\ call[h].args = call[g].args
  /\ handler[h] = handler[g]
  /\ remote0[h] = remote0[g]
  /\ Outs(call[h]) = Outs(call[g])
  /\ ReadsAtStart(call[h])

C25_NoLock ==
  \A h, g \in DOMAIN call :
    (h # g /\ call[h].pc = "create" /\ call[g].pc \in {"idle", "done"}) =>
      /\ CanStart(g)
      /\ (HasLocation(g) /\ TheBucket \notin remote.buckets) =>
           CreateBucketGate(g, TheBucket,
             ListBucketsResult(ClientListBuckets(remote, "none")).ret) = "create"

\* C25: two create_bucket calls of the same name, by two handlers, both
\* started over an account without the name, both listed the buckets and
\* both made the creation request; the provider accepted one and rejected
\* the other.
C25_Witness ==
  \E h, g \in DOMAIN call :
    /\ h # g
    /\ EndedCall(h, "create_bucket") /\ EndedCall(g, "create_bucket")
    /\ call[h].args.bucket_name = call[g].args.bucket_name
    /\ call[h].args.bucket_name \notin remote0[h].buckets
    /\ call[g].args.bucket_name \notin remote0[g].buckets
    /\ Apis(call[h]) = <<"list_buckets", "create_bucket">>
    /\ Apis(call[g]) = <<"list_buckets", "create_bucket">>
    /\ Outs(call[h]) = <<"ok", "ok">>
    /\ Outs(call[g]) = <<"ok", "ClientError">>

\* C26, as stated: a read_file that finds the object absent, in its
\* listing or at its get_object request (the object was deleted in
\* between), returns the sentinel "File not in bucket" and not None.
C26_AbsentIsSentinel ==
  \A h \in DOMAIN call :
    LET c == call[h]
    IN (/\ EndedCall(h, "read_file")
        /\ \/ Outs(c) = <<"ok">>
           \/ Outs(c) = <<"ok", "ClientErrorNoSuchKey">>) =>
         /\ c.ret.kind = "str"
         /\ c.ret.val = FileNotInBucket

====
